---- MODULE Spec2Model ----
(***************************************************************************)
(* A model of boynton/ion-go: the Scanner (ion/scanner.go), the recursive  *)
(* descent Parser (ion/parser.go) and the Value renderer (ion/value.go).   *)
(*                                                                         *)
(* A text is a sequence of characters, a character a one-rune string.  The *)
(* rune U+0000, which the Scanner also uses as its end-of-input mark, is   *)
(* written NUL.  A token literal and a Value's Text are texts too.         *)
(***************************************************************************)
EXTENDS Integers, Sequences, FiniteSets, TLC

(***************************************************************************)
(* Characters                                                              *)
(***************************************************************************)
NUL == "NUL"
NL == "\n"
TAB == "\t"
CR == "\r"
SP == " "
BSL == "\\"
DQ == "\""
SQ == "'"

eof == NUL

LowerLetters ==
  {"a", "b", "c", "d", "e", "f", "g", "h", "i", "j", "k", "l", "m",
   "n", "o", "p", "q", "r", "s", "t", "u", "v", "w", "x", "y", "z"}

UpperLetters ==
  {"A", "B", "C", "D", "E", "F", "G", "H", "I", "J", "K", "L", "M",
   "N", "O", "P", "Q", "R", "S", "T", "U", "V", "W", "X", "Y", "Z"}

DecDigits == {"0", "1", "2", "3", "4", "5", "6", "7", "8", "9"}

isWhitespace(ch) == ch = SP \/ ch = TAB \/ ch = NL

isLetter(ch) == ch \in LowerLetters \/ ch \in UpperLetters

isDigit(ch) == ch \in DecDigits

(***************************************************************************)
(* Tokens                                                                  *)
(***************************************************************************)
ILLEGAL == "ILLEGAL"
EOF == "EOF"
WHITESPACE == "WHITESPACE"
COMMA == "COMMA"
COLON == "COLON"
DOUBLE_COLON == "DOUBLE_COLON"
SYMBOL == "SYMBOL"
STRING_TOKEN == "STRING"
OPEN_BRACE == "OPEN_BRACE"
CLOSE_BRACE == "CLOSE_BRACE"
OPEN_BRACKET == "OPEN_BRACKET"
CLOSE_BRACKET == "CLOSE_BRACKET"
OPEN_PAREN == "OPEN_PAREN"
CLOSE_PAREN == "CLOSE_PAREN"
NUMBER == "NUMBER"

Token ==
  {ILLEGAL, EOF, WHITESPACE, COMMA, COLON, DOUBLE_COLON, SYMBOL, STRING_TOKEN,
   OPEN_BRACE, CLOSE_BRACE, OPEN_BRACKET, CLOSE_BRACKET, OPEN_PAREN,
   CLOSE_PAREN, NUMBER}

(***************************************************************************)
(* The Scanner.  Its state: the text behind the reader, the number of      *)
(* runes read, whether the last reader operation was a successful ReadRune *)
(* (bufio's UnreadRune does nothing otherwise), and the pushback slot.     *)
(***************************************************************************)
NewScanner(text) ==
  [src |-> text, pos |-> 0, canUnread |-> FALSE,
   lastToken |-> ILLEGAL, lastLiteral |-> <<>>]

\* read: the next rune, or eof when the reader fails.  r.s is the Scanner after.
read(s) ==
  IF s.pos < Len(s.src)
  THEN [ch |-> s.src[s.pos + 1], s |-> [s EXCEPT !.pos = @ + 1, !.canUnread = TRUE]]
  ELSE [ch |-> eof, s |-> [s EXCEPT !.canUnread = FALSE]]

unread(s) ==
  IF s.canUnread THEN [s EXCEPT !.pos = @ - 1, !.canUnread = FALSE] ELSE s

Unscan(s, tok, lit) == [s EXCEPT !.lastToken = tok, !.lastLiteral = lit]

\* What a scan function returns: the token, its literal, the Scanner after.
Scanned(tok, lit, s) == [tok |-> tok, lit |-> lit, s |-> s]

\* In the definitions below a local operator At(r) is the code that follows a
\* call, r being what the call returned; Bind(x, At) is that code with the
\* call x made once.
Bind(x, F(_)) == CHOOSE y \in {F(r) : r \in {x}} : TRUE

RECURSIVE skipLine(_)
skipLine(s) ==
  LET At(r) == IF r.ch = eof \/ r.ch = NL THEN r.s ELSE skipLine(r.s)
  IN  Bind(read(s), At)

HexDigitSet ==
  <<"0", "1", "2", "3", "4", "5", "6", "7", "8", "9",
    "a", "b", "c", "d", "e", "f", "A", "B", "C", "D", "E", "F", ".">>

DecDigitSet == <<"0", "1", "2", "3", "4", "5", "6", "7", "8", "9", ".">>

BinDigitSet == <<"0", "1", ".">>

\* strings.Index(digits, string(ch)) >= 0
InDigits(digits, ch) == \E i \in 1..Len(digits) : digits[i] = ch

RECURSIVE scanNumberLoop(_, _, _)
scanNumberLoop(digits, buf, s) ==
  LET At(r) ==
        IF r.ch = eof THEN Scanned(NUMBER, buf, r.s)
        ELSE IF InDigits(digits, r.ch) THEN scanNumberLoop(digits, Append(buf, r.ch), r.s)
        ELSE Scanned(NUMBER, buf, unread(r.s))
  IN  Bind(read(s), At)

scanNumber(first, s) ==
  LET At(r) ==
        IF r.ch = eof THEN Scanned(NUMBER, <<first>>, r.s)
        ELSE IF first = "0" /\ r.ch = "x"
             THEN scanNumberLoop(HexDigitSet, <<first, r.ch>>, r.s)
        ELSE IF first = "0" /\ r.ch = "b"
             THEN scanNumberLoop(BinDigitSet, <<first, r.ch>>, r.s)
        ELSE scanNumberLoop(DecDigitSet, <<first>>, unread(r.s))
  IN  Bind(read(s), At)

\* The loop after backslash-newline: reads on while it sees whitespace, then
\* unreads the rune that ended it.
RECURSIVE skipContinuation(_)
skipContinuation(s) ==
  LET At(r) == IF r.ch = eof \/ ~isWhitespace(r.ch) THEN unread(r.s) ELSE skipContinuation(r.s)
  IN  Bind(read(s), At)

RECURSIVE scanUntilLoop(_, _, _, _, _)
scanUntilLoop(tok, delim, buf, escape, s) ==
  LET At(r) ==
        IF r.ch = eof THEN Scanned(tok, buf, r.s)
        ELSE IF escape
             THEN CASE r.ch = DQ -> scanUntilLoop(tok, delim, Append(buf, DQ), FALSE, r.s)
                    [] r.ch = "t" -> scanUntilLoop(tok, delim, Append(buf, TAB), FALSE, r.s)
                    [] r.ch = "n" -> scanUntilLoop(tok, delim, Append(buf, NL), FALSE, r.s)
                    [] r.ch = "r" -> scanUntilLoop(tok, delim, Append(buf, CR), FALSE, r.s)
                    [] r.ch = NL -> scanUntilLoop(tok, delim, buf, FALSE, skipContinuation(r.s))
                    [] OTHER -> Scanned(ILLEGAL, <<BSL, r.ch>>, r.s)
        ELSE IF r.ch = delim THEN Scanned(tok, buf, r.s)
        ELSE IF r.ch = BSL THEN scanUntilLoop(tok, delim, buf, TRUE, r.s)
        ELSE scanUntilLoop(tok, delim, Append(buf, r.ch), FALSE, r.s)
  IN  Bind(read(s), At)

\* buf.WriteRune(s.read()): the rune after the opening delimiter goes into the
\* buffer as read, whatever it is (eof, rune 0, included), before the loop.
scanUntil(tok, delim, s) ==
  LET At(r) == scanUntilLoop(tok, delim, <<r.ch>>, FALSE, r.s)
  IN  Bind(read(s), At)

RECURSIVE scanWhitespaceLoop(_, _)
scanWhitespaceLoop(buf, s) ==
  LET At(r) ==
        IF r.ch = eof THEN Scanned(WHITESPACE, buf, r.s)
        ELSE IF ~isWhitespace(r.ch) THEN Scanned(WHITESPACE, buf, unread(r.s))
        ELSE scanWhitespaceLoop(Append(buf, r.ch), r.s)
  IN  Bind(read(s), At)

scanWhitespace(s) ==
  LET At(r) == scanWhitespaceLoop(<<r.ch>>, r.s)
  IN  Bind(read(s), At)

RECURSIVE scanIdentifierLoop(_, _)
scanIdentifierLoop(buf, s) ==
  LET At(r) ==
        IF r.ch = eof THEN Scanned(SYMBOL, buf, r.s)
        ELSE IF ~isLetter(r.ch) /\ ~isDigit(r.ch) /\ r.ch # "_"
             THEN Scanned(SYMBOL, buf, unread(r.s))
        ELSE scanIdentifierLoop(Append(buf, r.ch), r.s)
  IN  Bind(read(s), At)

scanIdentifier(s) ==
  LET At(r) == scanIdentifierLoop(<<r.ch>>, r.s)
  IN  Bind(read(s), At)

\* The pushback slot holds a token iff lastToken is not ILLEGAL.
HasPushback(s) == s.lastToken # ILLEGAL

RECURSIVE Scan(_)
Scan(s) ==
  LET Comment(r2) ==
        IF r2.ch = "/" THEN Scan(skipLine(r2.s))
        ELSE Scanned(ILLEGAL, <<"/">>, unread(r2.s))
      Colon(r2) ==
        IF r2.ch = ":" THEN Scanned(DOUBLE_COLON, <<":", ":">>, r2.s)
        ELSE Scanned(COLON, <<":">>, unread(r2.s))
      At(r) ==
        IF isWhitespace(r.ch) THEN scanWhitespace(unread(r.s))
        ELSE IF isLetter(r.ch) THEN scanIdentifier(unread(r.s))
        ELSE CASE r.ch = eof -> Scanned(EOF, <<>>, r.s)
               [] r.ch = "/" -> Comment(read(r.s))
               [] r.ch = ":" -> Colon(read(r.s))
               [] r.ch = SQ -> scanUntil(SYMBOL, r.ch, r.s)
               [] r.ch = DQ -> scanUntil(STRING_TOKEN, r.ch, r.s)
               [] r.ch = "," -> Scanned(COMMA, <<r.ch>>, r.s)
               [] r.ch = "{" -> Scanned(OPEN_BRACE, <<r.ch>>, r.s)
               [] r.ch = "}" -> Scanned(CLOSE_BRACE, <<r.ch>>, r.s)
               [] r.ch = "[" -> Scanned(OPEN_BRACKET, <<r.ch>>, r.s)
               [] r.ch = "]" -> Scanned(CLOSE_BRACKET, <<r.ch>>, r.s)
               [] r.ch = "(" -> Scanned(OPEN_PAREN, <<r.ch>>, r.s)
               [] r.ch = ")" -> Scanned(CLOSE_PAREN, <<r.ch>>, r.s)
               [] OTHER ->
                    IF isDigit(r.ch) THEN scanNumber(r.ch, r.s)
                    ELSE Scanned(ILLEGAL, <<r.ch>>, r.s)
  IN  IF HasPushback(s)
      THEN Scanned(s.lastToken, s.lastLiteral,
                   [s EXCEPT !.lastToken = ILLEGAL, !.lastLiteral = <<>>])
      ELSE Bind(read(s), At)

(***************************************************************************)
(* Values (ion/value.go).  A float64 is modelled by the decimal it holds:   *)
(* <<m, e>> stands for m * 10^(-e), with no trailing fractional zero.  The  *)
(* literals the Scanner can produce within the bounds have fewer than 15   *)
(* significant digits, for which ParseFloat and the shortest formatting of *)
(* %g are exact on the decimal.                                            *)
(***************************************************************************)
NullType == "Null"
BoolType == "Bool"
IntType == "Int"
FloatType == "Float"
StringType == "String"
SymbolType == "Symbol"
StructType == "Struct"
ListType == "List"
SexpType == "Sexp"

Type ==
  {NullType, BoolType, IntType, FloatType, StringType, SymbolType,
   StructType, ListType, SexpType}

FloatZero == <<0, 0>>

\* &Value{Type: t}: every other field has its zero value.
Value(t) ==
  [Type |-> t, Annotations |-> <<>>, Int |-> 0, Float |-> FloatZero,
   Text |-> <<>>, Sequence |-> <<>>, Struct |-> <<>>]

\* The nil *Value.
NilValue == [Type |-> "nil"]

Field(name, value) == [Name |-> name, Value |-> value]

(***************************************************************************)
(* Errors: the message of the fmt.Errorf call and what it formats.         *)
(***************************************************************************)
Errorf(msg, tok, lit, base) == [msg |-> msg, tok |-> tok, lit |-> lit, base |-> base]

\* The nil error.
NoError == [msg |-> "nil"]

(***************************************************************************)
(* strconv                                                                 *)
(***************************************************************************)
RECURSIVE Pow(_, _)
Pow(b, n) == IF n = 0 THEN 1 ELSE b * Pow(b, n - 1)

DigitValue(ch) ==
  CASE ch = "0" -> 0 [] ch = "1" -> 1 [] ch = "2" -> 2 [] ch = "3" -> 3
    [] ch = "4" -> 4 [] ch = "5" -> 5 [] ch = "6" -> 6 [] ch = "7" -> 7
    [] ch = "8" -> 8 [] ch = "9" -> 9
    [] ch \in {"a", "A"} -> 10 [] ch \in {"b", "B"} -> 11
    [] ch \in {"c", "C"} -> 12 [] ch \in {"d", "D"} -> 13
    [] ch \in {"e", "E"} -> 14 [] ch \in {"f", "F"} -> 15
    [] OTHER -> 99

\* The word width of the integers ParseInt is asked for (bitSize; the code
\* passes 64).  The model runs at a reduced width.
IntBits == 3

MaxUint == Pow(2, IntBits) - 1

\* ParseUint's digit loop: a rune that is no digit of the base is a syntax error,
\* a value above 2^bitSize-1 a range error.
RECURSIVE ParseUintLoop(_, _, _, _)
ParseUintLoop(lit, i, base, acc) ==
  IF i > Len(lit) THEN [ok |-> TRUE, n |-> acc]
  ELSE LET At(d) ==
             IF d >= base THEN [ok |-> FALSE, n |-> 0]
             ELSE IF acc * base + d > MaxUint THEN [ok |-> FALSE, n |-> MaxUint]
             ELSE ParseUintLoop(lit, i + 1, base, acc * base + d)
       IN  At(DigitValue(lit[i]))

\* A faulty ParseInt: the unsigned value is converted to the signed type
\* without the range check, so the values from 2^(bitSize-1) on wrap around.
ParseIntWrapping(lit, base) ==
  IF Len(lit) = 0 THEN [ok |-> FALSE, n |-> 0]
  ELSE LET At(u) ==
             IF ~u.ok THEN u
             ELSE IF u.n >= Pow(2, IntBits - 1) THEN [ok |-> TRUE, n |-> u.n - Pow(2, IntBits)]
             ELSE u
       IN  Bind(ParseUintLoop(lit, 1, base, 0), At)

\* ParseInt's cutoff, 1 << (bitSize-1): an unsigned value from the cutoff on is
\* a range error.
IntCutoff == Pow(2, IntBits - 1)

\* strconv.ParseInt(lit, base, bitSize) for a literal without a sign (the Scanner
\* never puts one in a NUMBER literal) and base 2, 10 or 16.
ParseInt(lit, base) ==
  IF Len(lit) = 0 THEN [ok |-> FALSE, n |-> 0]
  ELSE LET At(u) ==
             IF ~u.ok THEN u
             ELSE IF u.n >= IntCutoff THEN [ok |-> FALSE, n |-> IntCutoff - 1]
             ELSE u
       IN  Bind(ParseUintLoop(lit, 1, base, 0), At)

CountDots(lit) == Cardinality({i \in 1..Len(lit) : lit[i] = "."})

DotIndex(lit) == CHOOSE i \in 1..Len(lit) : lit[i] = "."

RECURSIVE DecimalOf(_, _, _)
DecimalOf(lit, i, acc) ==
  IF i > Len(lit) THEN acc
  ELSE IF lit[i] = "." THEN DecimalOf(lit, i + 1, acc)
  ELSE DecimalOf(lit, i + 1, acc * 10 + DigitValue(lit[i]))

RECURSIVE NormFloat(_, _)
NormFloat(m, e) ==
  IF m = 0 THEN FloatZero
  ELSE IF e > 0 /\ m % 10 = 0 THEN NormFloat(m \div 10, e - 1)
  ELSE <<m, e>>

\* strconv.ParseFloat(lit, 64) for a literal of decimal digits and dots that
\* starts with a digit: a syntax error unless it has at most one dot.
ParseFloat(lit) ==
  IF \E i \in 1..Len(lit) : lit[i] # "." /\ ~isDigit(lit[i]) THEN [ok |-> FALSE, f |-> FloatZero]
  ELSE IF CountDots(lit) > 1 \/ Len(lit) = CountDots(lit) THEN [ok |-> FALSE, f |-> FloatZero]
  ELSE IF CountDots(lit) = 0 THEN [ok |-> TRUE, f |-> NormFloat(DecimalOf(lit, 1, 0), 0)]
  ELSE [ok |-> TRUE, f |-> NormFloat(DecimalOf(lit, 1, 0), Len(lit) - DotIndex(lit))]

\* strings.HasPrefix
HasPrefix(lit, prefix) ==
  Len(lit) >= Len(prefix) /\ SubSeq(lit, 1, Len(prefix)) = prefix

(***************************************************************************)
(* fmt                                                                     *)
(***************************************************************************)
DigitChar(d) == <<"0", "1", "2", "3", "4", "5", "6", "7", "8", "9">>[d + 1]

RECURSIVE Digits(_)
Digits(n) == IF n < 10 THEN <<DigitChar(n)>> ELSE Append(Digits(n \div 10), DigitChar(n % 10))

\* fmt.Sprintf("%d", n)
FormatInt(n) == IF n < 0 THEN <<"-">> \o Digits(0 - n) ELSE Digits(n)

RECURSIVE Zeros(_)
Zeros(n) == IF n <= 0 THEN <<>> ELSE <<"0">> \o Zeros(n - 1)

\* The exponent of %e, at least two digits.
FormatExp(x) ==
  LET At(a) ==
        <<"e", IF x < 0 THEN "-" ELSE "+">> \o (IF a < 10 THEN <<"0">> ELSE <<>>) \o Digits(a)
  IN  At(IF x < 0 THEN 0 - x ELSE x)

\* fmt.Sprintf("%g", f): the shortest digits that give f back, in %e form when
\* the decimal exponent is below -4 or at least 21, in %f form otherwise.
FormatFloat(f) ==
  LET At(m, e, ds, x) ==
        IF m = 0 THEN <<"0">>
        ELSE IF x < -4 \/ x >= 21
             THEN <<ds[1]>> \o (IF Len(ds) > 1 THEN <<".">> \o SubSeq(ds, 2, Len(ds)) ELSE <<>>)
                  \o FormatExp(x)
        ELSE IF e = 0 THEN ds
        ELSE Digits(m \div Pow(10, e)) \o <<".">>
             \o Zeros(e - Len(Digits(m % Pow(10, e)))) \o Digits(m % Pow(10, e))
  IN  At(f[1], f[2], Digits(f[1]), Len(Digits(f[1])) - 1 - f[2])

\* strconv.Quote's rendering of one rune.
QuoteRune(ch) ==
  CASE ch = DQ -> <<BSL, DQ>>
    [] ch = BSL -> <<BSL, BSL>>
    [] ch = NL -> <<BSL, "n">>
    [] ch = TAB -> <<BSL, "t">>
    [] ch = CR -> <<BSL, "r">>
    [] ch = NUL -> <<BSL, "x", "0", "0">>
    [] OTHER -> <<ch>>

RECURSIVE QuoteBody(_)
QuoteBody(text) ==
  IF text = <<>> THEN <<>> ELSE QuoteRune(Head(text)) \o QuoteBody(Tail(text))

\* fmt.Sprintf("%q", text)
Quote(text) == <<DQ>> \o QuoteBody(text) \o <<DQ>>

(***************************************************************************)
(* Rendering (ion/value.go)                                                *)
(***************************************************************************)
RECURSIVE annotateLoop(_)
annotateLoop(annos) ==
  IF annos = <<>> THEN <<>> ELSE Head(annos) \o <<":", ":">> \o annotateLoop(Tail(annos))

annotate(val) == IF Len(val.Annotations) > 0 THEN annotateLoop(val.Annotations) ELSE <<>>

symbolToString(val) == <<SQ>> \o val \o <<SQ>>

RECURSIVE String(_), structToString(_), structItems(_, _), sequenceToString(_, _, _, _),
          sequenceItems(_, _, _)

String(v) ==
  CASE v.Type = NullType -> <<"n", "u", "l", "l">>
    [] v.Type = BoolType ->
         (IF v.Int = 0 THEN <<"f", "a", "l", "s", "e">> ELSE <<"t", "r", "u", "e">>)
    [] v.Type = IntType -> FormatInt(v.Int)
    [] v.Type = FloatType -> FormatFloat(v.Float)
    [] v.Type = StringType -> Quote(v.Text)
    [] v.Type = SymbolType -> symbolToString(v.Text)
    [] v.Type = StructType -> annotate(v) \o structToString(v.Struct)
    [] v.Type = ListType -> sequenceToString(v.Sequence, "[", ",", "]")
    [] v.Type = SexpType -> sequenceToString(v.Sequence, "(", NUL, ")")
    [] OTHER -> <<"?", "F", "I", "X", "M", "E", "?">>

\* The loop of structToString over the fields from the i-th on.
structItems(fields, i) ==
  IF i > Len(fields) THEN <<>>
  ELSE (IF i = 1 THEN <<>> ELSE <<",", SP>>)
       \o fields[i].Name \o <<":", SP>> \o String(fields[i].Value)
       \o structItems(fields, i + 1)

structToString(fields) ==
  CASE Len(fields) = 0 -> <<"{", "}">>
    [] Len(fields) = 1 ->
         <<"{">> \o fields[1].Name \o <<":", SP>> \o String(fields[1].Value) \o <<"}">>
    [] OTHER -> <<"{">> \o structItems(fields, 1) \o <<"}">>

\* The loop of sequenceToString; delimChar 0 (NUL) writes no delimiter.
sequenceItems(values, i, delimChar) ==
  IF i > Len(values) THEN <<>>
  ELSE (IF i = 1 THEN <<>>
        ELSE (IF delimChar # NUL THEN <<delimChar>> ELSE <<>>) \o <<SP>>)
       \o String(values[i]) \o sequenceItems(values, i + 1, delimChar)

sequenceToString(values, openChar, delimChar, closeChar) ==
  CASE Len(values) = 0 -> <<openChar, closeChar>>
    [] Len(values) = 1 -> <<openChar>> \o String(values[1]) \o <<closeChar>>
    [] OTHER -> <<openChar>> \o sequenceItems(values, 1, delimChar) \o <<closeChar>>

(***************************************************************************)
(* The Parser (ion/parser.go).  Its state: the Scanner, the err field and  *)
(* the one-token buffer; raised lists the errors built so far, in order,   *)
(* returns what each parse function returned, in order of return, scanned  *)
(* the tokens Scanner.Scan gave the Parser, in order, names what           *)
(* parseStruct found at each field-name position: the Type of the item     *)
(* ("nil" for no Value) and the token behind it, once scanned, and taken   *)
(* the calls of scan and unscan, in order: what scan returned and whether  *)
(* it read the Scanner, what unscan pushed back.                           *)
(***************************************************************************)
NewParser(text) ==
  [scanner |-> NewScanner(text), err |-> NoError,
   buf |-> [tok |-> ILLEGAL, lit |-> <<>>, n |-> 0],
   raised |-> <<>>, returns |-> <<>>, scanned |-> <<>>, names |-> <<>>, taken |-> <<>>]

\* The entry of the log taken for a call of scan or unscan.
Taken(op, tok, lit, fromScanner) ==
  [op |-> op, tok |-> tok, lit |-> lit, read |-> fromScanner]

\* A faulty scan: the token read from the Scanner is not kept in buf.
scanNotBuffering(p) ==
  LET At(r) ==
        [tok |-> r.tok, lit |-> r.lit,
         p |-> [p EXCEPT !.scanner = r.s,
                         !.scanned = Append(@, [tok |-> r.tok, lit |-> r.lit,
                                                pos |-> r.s.pos]),
                         !.taken = Append(@, Taken("scan", r.tok, r.lit, TRUE))]]
  IN  IF p.buf.n # 0
      THEN [tok |-> p.buf.tok, lit |-> p.buf.lit,
            p |-> [p EXCEPT !.buf.n = 0,
                            !.taken = Append(@, Taken("scan", p.buf.tok, p.buf.lit, FALSE))]]
      ELSE Bind(Scan(p.scanner), At)

scan(p) ==
  LET At(r) ==
        [tok |-> r.tok, lit |-> r.lit,
         p |-> [p EXCEPT !.scanner = r.s, !.buf.tok = r.tok, !.buf.lit = r.lit,
                         !.scanned = Append(@, [tok |-> r.tok, lit |-> r.lit,
                                                pos |-> r.s.pos]),
                         !.taken = Append(@, Taken("scan", r.tok, r.lit, TRUE))]]
  IN  IF p.buf.n # 0
      THEN [tok |-> p.buf.tok, lit |-> p.buf.lit,
            p |-> [p EXCEPT !.buf.n = 0,
                            !.taken = Append(@, Taken("scan", p.buf.tok, p.buf.lit, FALSE))]]
      ELSE Bind(Scan(p.scanner), At)

unscan(p) ==
  [p EXCEPT !.buf.n = 1, !.taken = Append(@, Taken("unscan", p.buf.tok, p.buf.lit, FALSE))]

scanIgnoreWhitespace(p) ==
  LET At(r) == IF r.tok = WHITESPACE THEN scan(r.p) ELSE r
  IN  Bind(scan(p), At)

(***************************************************************************)
(* The parse functions call each other recursively.  The model runs them   *)
(* as a machine with the call stack made explicit: m.p is the Parser,      *)
(* m.ctl the function being entered (or "return", with the returned        *)
(* value and error), and m.stack the callers' frames, innermost last,      *)
(* each holding the locals its caller needs when the call returns.         *)
(***************************************************************************)
Enter(m, p, ctl) == [m EXCEPT !.p = p, !.ctl = ctl]

\* A call: the caller's frame is pushed and the callee entered.
Call(m, p, frame, ctl) == [m EXCEPT !.p = p, !.stack = Append(@, frame), !.ctl = ctl]

\* return val, err from function fn.
Return(m, fn, val, err, p) ==
  [m EXCEPT !.ctl = [op |-> "return", val |-> val, err |-> err],
            !.p = [p EXCEPT !.returns =
                     Append(@, [fn |-> fn, nilValue |-> val = NilValue, err |-> err])]]

\* return nil, fmt.Errorf(...)
Fail(m, fn, e, p) == Return(m, fn, NilValue, e, [p EXCEPT !.raised = Append(@, e)])

\* p.err = fmt.Errorf(...); return nil, p.err
FailKeep(m, fn, e, p) == Fail(m, fn, e, [p EXCEPT !.err = e])

\* A nil *Value is dereferenced: the panic unwinds every caller.
Panic(m) == [m EXCEPT !.ctl = [op |-> "panic"]]

\* The base the NUMBER case takes from the literal's prefix.
numberBase(lit) ==
  IF HasPrefix(lit, <<"0", "x">>) THEN 16
  ELSE IF HasPrefix(lit, <<"0", "b">>) THEN 2 ELSE 10

\* The NUMBER case of parseToken.
parseNumber(m, lit) ==
  LET Real(f) ==
        IF ~HasPrefix(lit, <<"0", "x">>) /\ ~HasPrefix(lit, <<"0", "b">>) /\ f.ok
        THEN Return(m, "parseToken", [Value(FloatType) EXCEPT !.Float = f.f], NoError, m.p)
        ELSE Fail(m, "parseToken", Errorf("Cannot parse real number", "", lit, 0), m.p)
      Integer(base, digits, i) ==
        IF ~i.ok
        THEN Fail(m, "parseToken", Errorf("Cannot parse base integer", "", digits, base), m.p)
        ELSE Return(m, "parseToken", [Value(IntType) EXCEPT !.Int = i.n], NoError, m.p)
      Stripped(base, digits) == Integer(base, digits, ParseInt(digits, base))
      Based(base) == Stripped(base, IF base = 10 THEN lit ELSE SubSeq(lit, 3, Len(lit)))
  IN  IF \E i \in 1..Len(lit) : lit[i] = "." THEN Real(ParseFloat(lit))
      ELSE Based(numberBase(lit))

\* A faulty classification: true, false and null keep the literal in Text.
symbolValueKeepingText(lit) ==
  IF lit = <<"t", "r", "u", "e">> THEN [Value(BoolType) EXCEPT !.Int = 1, !.Text = lit]
  ELSE IF lit = <<"f", "a", "l", "s", "e">> THEN [Value(BoolType) EXCEPT !.Int = 0, !.Text = lit]
  ELSE IF lit = <<"n", "u", "l", "l">> THEN [Value(NullType) EXCEPT !.Text = lit]
  ELSE [Value(SymbolType) EXCEPT !.Text = lit]

\* The classification of a SYMBOL literal that is no annotation.
symbolValue(lit) ==
  IF lit = <<"t", "r", "u", "e">> THEN [Value(BoolType) EXCEPT !.Int = 1]
  ELSE IF lit = <<"f", "a", "l", "s", "e">> THEN [Value(BoolType) EXCEPT !.Int = 0]
  ELSE IF lit = <<"n", "u", "l", "l">> THEN Value(NullType)
  ELSE [Value(SymbolType) EXCEPT !.Text = lit]

\* parse(): scan a token and return p.parseToken(tok, lit).
parse(m) ==
  LET At(t) == Call(m, t.p, [fn |-> "parse"], [op |-> "parseToken", tok |-> t.tok, lit |-> t.lit])
  IN  Bind(scanIgnoreWhitespace(m.p), At)

\* parseToken(tok, lit), up to its return or to the call it makes.
parseToken(m) ==
  LET tok == m.ctl.tok
      lit == m.ctl.lit
      Symbol(n) ==
        IF n.tok = DOUBLE_COLON
        THEN Call(m, n.p, [fn |-> "parseToken", at |-> "annotation", lit |-> lit],
                  [op |-> "parse"])
        ELSE Return(m, "parseToken", symbolValue(lit), NoError, unscan(n.p))
      Container(ctl) == Call(m, m.p, [fn |-> "parseToken", at |-> "container"], ctl)
  IN  IF tok = EOF THEN Return(m, "parseToken", NilValue, NoError, m.p)
      ELSE IF tok = ILLEGAL
           THEN FailKeep(m, "parseToken", Errorf("token not handled", tok, lit, 0), m.p)
      ELSE CASE tok = SYMBOL -> Bind(scanIgnoreWhitespace(m.p), Symbol)
             [] tok = OPEN_PAREN -> Container([op |-> "parseSequence", end |-> CLOSE_PAREN])
             [] tok = OPEN_BRACKET -> Container([op |-> "parseSequence", end |-> CLOSE_BRACKET])
             [] tok = OPEN_BRACE -> Container([op |-> "parseStruct"])
             [] tok \in {CLOSE_BRACE, CLOSE_BRACKET, CLOSE_PAREN, DOUBLE_COLON} ->
                  Fail(m, "parseToken", Errorf("Unexpected", tok, <<>>, 0), m.p)
             [] tok \in {COMMA, COLON} -> Return(m, "parseToken", NilValue, NoError, m.p)
             [] tok = NUMBER -> parseNumber(m, lit)
             [] tok = STRING_TOKEN ->
                  Return(m, "parseToken", [Value(StringType) EXCEPT !.Text = lit], NoError, m.p)
             [] OTHER -> FailKeep(m, "parseToken", Errorf("token not handled", tok, lit, 0), m.p)

\* A faulty attachment: a value that carries an annotation already keeps it.
attachAnnotationKeepingInner(val, err, lit) ==
  IF err = NoError /\ val # NilValue /\ val.Annotations = <<>>
  THEN [val EXCEPT !.Annotations = <<lit>>]
  ELSE val

\* val.Annotations = []string{lit}, when there is a value and no error.
attachAnnotation(val, err, lit) ==
  IF err = NoError /\ val # NilValue THEN [val EXCEPT !.Annotations = <<lit>>] ELSE val

\* parseToken after val, err := p.parse() in its SYMBOL case: return val, err.
parseTokenAnnotated(m, frame, val, err) ==
  Return(m, "parseToken", attachAnnotation(val, err, frame.lit), err, m.p)

\* The head of a loop of parseSequence or parseStruct, with the token scanned.
Loop(m, ctl, t) == Enter(m, t.p, [ctl EXCEPT !.tok = t.tok, !.lit = t.lit])

\* parseSequence(end), up to its loop.
parseSequence(m) ==
  Loop(m, [op |-> "parseSequenceLoop", end |-> m.ctl.end, seq |-> <<>>, tok |-> EOF, lit |-> <<>>],
       scanIgnoreWhitespace(m.p))

\* A faulty parseSequence: either closer ends the sequence, whatever the
\* closer awaited.
parseSequenceLoopAnyCloser(m) ==
  LET tok == m.ctl.tok
      end == m.ctl.end
      seq == m.ctl.seq
  IN  IF tok = EOF THEN Fail(m, "parseSequence", Errorf("Unexpected EOF", "", <<>>, 0), m.p)
      ELSE IF tok = CLOSE_BRACKET \/ tok = CLOSE_PAREN
           THEN IF end = CLOSE_PAREN
                THEN Return(m, "parseSequence", [Value(SexpType) EXCEPT !.Sequence = seq],
                            NoError, m.p)
                ELSE Return(m, "parseSequence", [Value(ListType) EXCEPT !.Sequence = seq],
                            NoError, m.p)
      ELSE Call(m, m.p, [fn |-> "parseSequence", end |-> end, seq |-> seq],
                [op |-> "parseToken", tok |-> tok, lit |-> m.ctl.lit])

\* One pass of the for loop of parseSequence, up to its return or to the call
\* of parseToken.
parseSequenceLoop(m) ==
  LET tok == m.ctl.tok
      end == m.ctl.end
      seq == m.ctl.seq
  IN  IF tok = EOF THEN Fail(m, "parseSequence", Errorf("Unexpected EOF", "", <<>>, 0), m.p)
      ELSE IF tok = CLOSE_BRACKET \/ tok = CLOSE_PAREN
           THEN IF end # tok
                THEN Fail(m, "parseSequence", Errorf("Bad sequence", tok, <<end>>, 0), m.p)
                ELSE IF end = CLOSE_PAREN
                     THEN Return(m, "parseSequence", [Value(SexpType) EXCEPT !.Sequence = seq],
                                 NoError, m.p)
                     ELSE Return(m, "parseSequence", [Value(ListType) EXCEPT !.Sequence = seq],
                                 NoError, m.p)
      ELSE Call(m, m.p, [fn |-> "parseSequence", end |-> end, seq |-> seq],
                [op |-> "parseToken", tok |-> tok, lit |-> m.ctl.lit])

\* A faulty parseSequence: the error of parseToken is not looked at, and the
\* loop goes on with the next token.
parseSequenceIgnoringError(m, frame, elem, err) ==
  Loop(m, [op |-> "parseSequenceLoop", end |-> frame.end,
           seq |-> IF elem # NilValue THEN Append(frame.seq, elem) ELSE frame.seq,
           tok |-> EOF, lit |-> <<>>],
       scanIgnoreWhitespace(m.p))

\* The loop of parseSequence after elem, err := p.parseToken(tok, lit).
parseSequenceElement(m, frame, elem, err) ==
  IF err # NoError THEN Return(m, "parseSequence", NilValue, err, m.p)
  ELSE Loop(m, [op |-> "parseSequenceLoop", end |-> frame.end,
                seq |-> IF elem # NilValue THEN Append(frame.seq, elem) ELSE frame.seq,
                tok |-> EOF, lit |-> <<>>],
            scanIgnoreWhitespace(m.p))

\* parseStruct(), up to its loop.
parseStruct(m) ==
  Loop(m, [op |-> "parseStructLoop", fields |-> <<>>, tok |-> EOF, lit |-> <<>>],
       scanIgnoreWhitespace(m.p))

\* A faulty pass of the loop of parseStruct: at a comma it goes round again
\* without scanning the next token.
parseStructLoopNotScanning(m) ==
  LET tok == m.ctl.tok
      fields == m.ctl.fields
  IN  IF tok = EOF THEN Fail(m, "parseStruct", Errorf("Unexpected EOF", "", <<>>, 0), m.p)
      ELSE IF tok = CLOSE_BRACE
           THEN Return(m, "parseStruct", [Value(StructType) EXCEPT !.Struct = fields], NoError, m.p)
      ELSE IF tok = COMMA THEN Enter(m, m.p, m.ctl)
      ELSE Call(m, m.p, [fn |-> "parseStruct", at |-> "name", fields |-> fields],
                [op |-> "parseToken", tok |-> tok, lit |-> m.ctl.lit])

\* One pass of the for loop of parseStruct, up to its return or to the call of
\* parseToken for the field name.
parseStructLoop(m) ==
  LET tok == m.ctl.tok
      fields == m.ctl.fields
  IN  IF tok = EOF THEN Fail(m, "parseStruct", Errorf("Unexpected EOF", "", <<>>, 0), m.p)
      ELSE IF tok = CLOSE_BRACE
           THEN Return(m, "parseStruct", [Value(StructType) EXCEPT !.Struct = fields], NoError, m.p)
      ELSE IF tok = COMMA THEN Loop(m, m.ctl, scanIgnoreWhitespace(m.p))
      ELSE Call(m, m.p, [fn |-> "parseStruct", at |-> "name", fields |-> fields],
                [op |-> "parseToken", tok |-> tok, lit |-> m.ctl.lit])

\* The loop of parseStruct after elem, err := p.parseToken(tok, lit), up to the
\* call of parse for the field's value.  elem.Type dereferences elem.
parseStructName(m, frame, elem, err) ==
  LET Named(p, follows) ==
        [p EXCEPT !.names = Append(@, [type |-> elem.Type, follows |-> follows])]
      Colon(c) ==
        IF c.tok # COLON
        THEN Fail(m, "parseStruct", Errorf("Bad struct syntax", c.tok, <<>>, 0),
                  Named(c.p, c.tok))
        ELSE Call(m, Named(c.p, c.tok),
                  [fn |-> "parseStruct", at |-> "value", fields |-> frame.fields,
                   name |-> elem.Text],
                  [op |-> "parse"])
  IN  IF err # NoError THEN Return(m, "parseStruct", NilValue, err, m.p)
      ELSE IF elem = NilValue THEN Panic([m EXCEPT !.p = Named(m.p, "")])
      ELSE IF elem.Type # SymbolType /\ elem.Type # StringType
           THEN Fail(m, "parseStruct", Errorf("Invalid struct field name", "", <<>>, 0),
                     Named(m.p, ""))
      ELSE Bind(scanIgnoreWhitespace(m.p), Colon)

\* A faulty parseStruct: the new field is put before the fields already there.
parseStructValuePrepending(m, frame, elem, err) ==
  IF err # NoError THEN Return(m, "parseStruct", NilValue, err, m.p)
  ELSE IF elem = NilValue THEN Panic(m)
  ELSE Loop(m, [op |-> "parseStructLoop",
                fields |-> <<Field(frame.name, elem)>> \o frame.fields,
                tok |-> EOF, lit |-> <<>>],
            scanIgnoreWhitespace(m.p))

\* The loop of parseStruct after elem, err = p.parse().  *elem dereferences elem.
parseStructValue(m, frame, elem, err) ==
  IF err # NoError THEN Return(m, "parseStruct", NilValue, err, m.p)
  ELSE IF elem = NilValue THEN Panic(m)
  ELSE Loop(m, [op |-> "parseStructLoop", fields |-> Append(frame.fields, Field(frame.name, elem)),
                tok |-> EOF, lit |-> <<>>],
            scanIgnoreWhitespace(m.p))

\* A return: the innermost caller goes on with the returned val, err; with no
\* caller left, they are what Parse returns.
Resume(m) ==
  LET val == m.ctl.val
      err == m.ctl.err
      Into(frame, caller) ==
        CASE frame.fn = "parse" -> Return(caller, "parse", val, err, caller.p)
          [] frame.fn = "parseToken" /\ frame.at = "container" ->
               Return(caller, "parseToken", val, err, caller.p)
          [] frame.fn = "parseToken" /\ frame.at = "annotation" ->
               parseTokenAnnotated(caller, frame, val, err)
          [] frame.fn = "parseSequence" -> parseSequenceElement(caller, frame, val, err)
          [] frame.fn = "parseStruct" /\ frame.at = "name" ->
               parseStructName(caller, frame, val, err)
          [] frame.fn = "parseStruct" /\ frame.at = "value" ->
               parseStructValue(caller, frame, val, err)
  IN  IF m.stack = <<>> THEN [m EXCEPT !.ctl = [op |-> "done", val |-> val, err |-> err]]
      ELSE Into(m.stack[Len(m.stack)], [m EXCEPT !.stack = SubSeq(@, 1, Len(@) - 1)])

\* One step of the machine.
Step(m) ==
  CASE m.ctl.op = "parse" -> parse(m)
    [] m.ctl.op = "parseToken" -> parseToken(m)
    [] m.ctl.op = "parseSequence" -> parseSequence(m)
    [] m.ctl.op = "parseSequenceLoop" -> parseSequenceLoop(m)
    [] m.ctl.op = "parseStruct" -> parseStruct(m)
    [] m.ctl.op = "parseStructLoop" -> parseStructLoop(m)
    [] m.ctl.op = "return" -> Resume(m)

Halted(m) == m.ctl.op \in {"done", "panic"}

RECURSIVE Run(_)
Run(m) == IF Halted(m) THEN m ELSE Run(Step(m))

\* What Parse gives its caller: the value and error returned, or a panic; p is
\* the Parser at the end.
Outcome(m) ==
  IF m.ctl.op = "panic"
  THEN [val |-> NilValue, err |-> NoError, panicked |-> TRUE, p |-> m.p]
  ELSE [val |-> m.ctl.val, err |-> m.ctl.err, panicked |-> FALSE, p |-> m.p]

\* parseFrom(source, reader): a new Parser on the text, and p.parse().
parseFrom(text) == [p |-> NewParser(text), stack |-> <<>>, ctl |-> [op |-> "parse"]]

\* Parse(reader)
Parse(text) == Outcome(Run(parseFrom(text)))

(***************************************************************************)
(* The inputs.  Three families: every text of at most MaxToks lexemes      *)
(* (well formed or not), every text of at most MaxChars characters that    *)
(* starts a NUMBER or a quoted literal, and the well-formed documents with *)
(* at most MaxItems items in a container.                                  *)
(***************************************************************************)
MaxToks == 3

MaxChars == 5

MaxItems == 2

RECURSIVE Concat(_)
Concat(ls) == IF ls = <<>> THEN <<>> ELSE Head(ls) \o Concat(Tail(ls))

\* The sequences of at most n elements of S.
SeqsUpTo(S, n) == UNION {[1..k -> S] : k \in 0..n}

Lexemes ==
  {<<"{">>, <<"}">>, <<"[">>, <<"]">>, <<"(">>, <<")">>, <<":">>, <<":", ":">>,
   <<",">>, <<SP>>, <<"a">>, <<"1">>, <<"t", "r", "u", "e">>}

LexemeTexts == {Concat(ls) : ls \in SeqsUpTo(Lexemes, MaxToks)}

NumberAlphabet == {"0", "1", "3", "4", "f", "x", "b", "."}

\* The text is a digit and then at most MaxChars - 1 characters of a number.
IsNumberText(text) ==
  \E d \in {"0", "1", "3", "4"}, k \in 0..(MaxChars - 1) :
    \E rest \in [1..k -> NumberAlphabet] : text = <<d>> \o rest

QuoteAlphabet == {DQ, SQ, BSL, NL, SP, "n", "q"}

\* The text is a quote and then at most MaxChars - 1 characters of a literal.
IsQuotedText(text) ==
  \E d \in {DQ, SQ}, k \in 0..(MaxChars - 1) :
    \E rest \in [1..k -> QuoteAlphabet] : text = <<d>> \o rest

ScalarTexts ==
  {<<"a">>, <<"1">>, <<"1", ".", "5">>, <<DQ, "s", DQ>>, <<"t", "r", "u", "e">>}

FieldNames == {<<"a">>, <<"b">>}

RECURSIVE Join(_, _)
Join(ts, sep) ==
  IF ts = <<>> THEN <<>>
  ELSE IF Len(ts) = 1 THEN ts[1]
  ELSE ts[1] \o sep \o Join(Tail(ts), sep)

ListText(items) == <<"[">> \o Join(items, <<",">>) \o <<"]">>

SexpText(items) == <<"(">> \o Join(items, <<SP>>) \o <<")">>

StructText(names, items) ==
  <<"{">> \o Join([i \in 1..Len(items) |-> names[i] \o <<":">> \o items[i]], <<",", SP>>) \o <<"}">>

\* The containers over a set of item texts, with at most n items each.
ContainerTexts(items, n) ==
  {ListText(is) : is \in SeqsUpTo(items, n)}
  \cup {SexpText(is) : is \in SeqsUpTo(items, n)}
  \cup UNION {{StructText(ns, is) : ns \in [1..k -> FieldNames], is \in [1..k -> items]} : k \in 0..n}

PlainDocumentTexts ==
  ScalarTexts
  \cup ContainerTexts(ScalarTexts, MaxItems)
  \cup ContainerTexts(ContainerTexts(ScalarTexts, 1), 1)

DocumentTexts ==
  PlainDocumentTexts
  \cup {<<"a", ":", ":">> \o d : d \in PlainDocumentTexts}
  \cup {<<"a", ":", ":", "b", ":", ":">> \o d : d \in ScalarTexts}

\* A struct whose first field has its name and colon and then no value: the
\* end of input, a comma, a colon or an annotation followed by nothing, the
\* struct closed or left open.
MissingValueTexts ==
  {<<"{", "a", ":">> \o t \o c :
     t \in {<<>>, <<",">>, <<SP, ":">>, <<"a", ":", ":">>}, c \in {<<>>, <<"}">>}}

\* The texts made of whole tokens: they hold no quoted literal left open,
\* inside which "//" would be content, and no "/".
TokenTexts == LexemeTexts \cup DocumentTexts \cup MissingValueTexts

(***************************************************************************)
(* The state machine.  A run takes one input text and parses it; then it   *)
(* either renders the Value and parses the rendering, or parses one text   *)
(* derived from the input: the input with a comment inserted, the input    *)
(* cut short, or the input behind an annotation.  A second machine drives  *)
(* a Scanner directly, by any sequence of Scan and Unscan calls.           *)
(***************************************************************************)
VARIABLES
  input,      \* the text given to Parse
  pc,         \* "start", "parsed", "rendered", "reparsed", "derived"
  result,     \* what Parse(input) returned
  rendered,   \* result.val.String()
  reparsed,   \* what Parse(rendered) returned
  derived,    \* the derived text and what Parse returned for it
  scanner,    \* the Scanner driven directly
  pushed,     \* what the caller last gave Unscan, until the next Scan
  last,       \* the last call on the Scanner and what it returned
  machine     \* the Parser run one step at a time: its state and call stack

parseVars == <<input, pc, result, rendered, reparsed, derived>>

scanVars == <<scanner, pushed, last>>

vars == <<input, pc, result, rendered, reparsed, derived, scanner, pushed, last, machine>>

NotRun == [val |-> NilValue, err |-> NoError, panicked |-> FALSE, p |-> NewParser(<<>>)]

NotDerived == [kind |-> "none"]

\* What the caller of Parse sees.
Seen(r) == [val |-> r.val, err |-> r.err, panicked |-> r.panicked]

NoPushback == [tok |-> "none"]

NoCall == [op |-> "new"]

\* No Scanner is driven directly.
ScannerIdle ==
  /\ scanner = NewScanner(<<>>)
  /\ pushed = NoPushback
  /\ last = NoCall

\* No Parser is run step by step.
NoMachine == [p |-> NewParser(<<>>), stack |-> <<>>, ctl |-> [op |-> "none"]]

Init ==
  /\ \/ input \in TokenTexts
     \/ IsNumberText(input)
     \/ IsQuotedText(input)
  /\ pc = "start"
  /\ result = NotRun
  /\ rendered = <<>>
  /\ reparsed = NotRun
  /\ derived = NotDerived
  /\ ScannerIdle
  /\ machine = NoMachine

ParseInput ==
  /\ pc = "start"
  /\ result' = Parse(input)
  /\ pc' = "parsed"
  /\ UNCHANGED <<input, rendered, reparsed, derived>>
  /\ UNCHANGED <<scanVars, machine>>

Render ==
  /\ pc = "parsed"
  /\ ~result.panicked
  /\ result.val # NilValue
  /\ rendered' = String(result.val)
  /\ pc' = "rendered"
  /\ UNCHANGED <<input, result, reparsed, derived>>
  /\ UNCHANGED <<scanVars, machine>>

ParseRendered ==
  /\ pc = "rendered"
  /\ reparsed' = Parse(rendered)
  /\ pc' = "reparsed"
  /\ UNCHANGED <<input, result, rendered, derived>>
  /\ UNCHANGED <<scanVars, machine>>

\* The positions of a text where a token starts or ends, and every position
\* inside a run of whitespace.
RECURSIVE BoundariesFrom(_)
BoundariesFrom(s) ==
  LET At(r) ==
        IF r.tok = EOF \/ r.s.pos = s.pos THEN {s.pos}
        ELSE (IF r.tok = WHITESPACE THEN s.pos..r.s.pos ELSE {s.pos, r.s.pos})
             \cup BoundariesFrom(r.s)
  IN  Bind(Scan(s), At)

Boundaries(text) == BoundariesFrom(NewScanner(text))

InsertAt(text, k, ins) == SubSeq(text, 1, k) \o ins \o SubSeq(text, k + 1, Len(text))

CommentBodies == {<<>>, <<"c">>}

\* Parse the input with a line comment inserted at a boundary, and the input
\* with only a newline inserted there.
InsertComment ==
  /\ pc = "parsed"
  /\ input \in TokenTexts
  /\ \E k \in Boundaries(input), body \in CommentBodies :
       derived' = [kind |-> "comment", at |-> k, body |-> body,
                   withComment |-> Seen(Parse(InsertAt(input, k, <<"/", "/">> \o body \o <<NL>>))),
                   withNewline |-> Seen(Parse(InsertAt(input, k, <<NL>>)))]
  /\ pc' = "derived"
  /\ UNCHANGED <<input, result, rendered, reparsed>>
  /\ UNCHANGED <<scanVars, machine>>

IsContainer(v) == v.Type \in {StructType, ListType, SexpType}

\* The input's first token opens a container that the parse closed: Parse
\* returned the container and stopped right after its closer.
ClosedContainer ==
  /\ ~result.panicked
  /\ result.err = NoError
  /\ result.val # NilValue
  /\ IsContainer(result.val)
  /\ result.p.scanned[1].tok \in {OPEN_BRACE, OPEN_BRACKET, OPEN_PAREN}

\* Parse the input cut off somewhere after the opener of its container and
\* before the container's closer.
Truncate ==
  /\ pc = "parsed"
  /\ ClosedContainer
  /\ \E k \in result.p.scanned[1].pos..(result.p.scanner.pos - 1) :
       derived' = [kind |-> "truncate", at |-> k, text |-> SubSeq(input, 1, k),
                   result |-> Seen(Parse(SubSeq(input, 1, k)))]
  /\ pc' = "derived"
  /\ UNCHANGED <<input, result, rendered, reparsed>>
  /\ UNCHANGED <<scanVars, machine>>

\* The ways an annotation is written before the double colon, each with the
\* symbol name it writes.
AnnotationTexts ==
  {[text |-> <<"a">>, name |-> <<"a">>],
   [text |-> <<"a", SP>>, name |-> <<"a">>],
   [text |-> <<"t", "r", "u", "e">>, name |-> <<"t", "r", "u", "e">>],
   [text |-> <<SQ, "a", SQ>>, name |-> <<"a">>],
   [text |-> <<SQ, "a", SP, "b", SQ, SP>>, name |-> <<"a", SP, "b">>],
   [text |-> <<SQ, SQ>>, name |-> <<>>],
   [text |-> <<SQ, BSL, "n", SQ>>, name |-> <<NL>>]}

\* Parse the input behind an annotation.
Annotate ==
  /\ pc = "parsed"
  /\ input \in TokenTexts
  /\ \E a \in AnnotationTexts :
       derived' = [kind |-> "annotate", text |-> a.text, name |-> a.name,
                   result |-> Seen(Parse(a.text \o <<":", ":">> \o input))]
  /\ pc' = "derived"
  /\ UNCHANGED <<input, result, rendered, reparsed>>
  /\ UNCHANGED <<scanVars, machine>>

Next == ParseInput \/ Render \/ ParseRendered \/ InsertComment \/ Truncate \/ Annotate

Spec == Init /\ [][Next]_vars

(***************************************************************************)
(* The Scanner driven directly: a new Scanner on a text, then Scan and     *)
(* Unscan in any order, Unscan with any token kind and a literal.          *)
(***************************************************************************)
MaxScanToks == 2

ScanLexemes == {<<"a">>, <<SP>>, <<"[">>, <<"1">>, <<"?">>, <<NUL>>}

ScanTexts == {Concat(ls) : ls \in SeqsUpTo(ScanLexemes, MaxScanToks)}

UnscanLiterals == {<<>>, <<"a">>, <<"?">>}

InitScan ==
  /\ input \in ScanTexts
  /\ pc = "scanning"
  /\ result = NotRun
  /\ rendered = <<>>
  /\ reparsed = NotRun
  /\ derived = NotDerived
  /\ scanner = NewScanner(input)
  /\ pushed = NoPushback
  /\ last = NoCall
  /\ machine = NoMachine

\* The next token of the input at the Scanner's position, and the position
\* behind it.
NextOfInput(s) ==
  LET At(r) == [tok |-> r.tok, lit |-> r.lit, pos |-> r.s.pos]
  IN  Bind(Scan(NewScanner(SubSeq(s.src, s.pos + 1, Len(s.src)))), At)

\* tok, lit := s.Scan()
ScanStep ==
  /\ pc = "scanning"
  /\ LET At(r) ==
           /\ scanner' = r.s
           /\ last' = [op |-> "Scan", tok |-> r.tok, lit |-> r.lit, pushed |-> pushed,
                       from |-> scanner.pos, input |-> NextOfInput(scanner)]
     IN  At(Scan(scanner))
  /\ pushed' = NoPushback
  /\ UNCHANGED <<parseVars, machine>>

\* s.Unscan(tok, lit)
UnscanStep ==
  /\ pc = "scanning"
  /\ \E tok \in Token, lit \in UnscanLiterals :
       /\ scanner' = Unscan(scanner, tok, lit)
       /\ pushed' = [tok |-> tok, lit |-> lit]
       /\ last' = [op |-> "Unscan", replaced |-> pushed]
  /\ UNCHANGED <<parseVars, machine>>

NextScan == ScanStep \/ UnscanStep

SpecScan == InitScan /\ [][NextScan]_vars

(***************************************************************************)
(* Parse run one step at a time: a step is the code of a parse function    *)
(* up to the call it makes or to its return, or the code behind a call     *)
(* that has returned.  ReturnParse is the return of Parse to its caller.   *)
(* The code runs on without interruption, hence the weak fairness.         *)
(***************************************************************************)
InitSteps ==
  /\ input \in TokenTexts
  /\ pc = "running"
  /\ result = NotRun
  /\ rendered = <<>>
  /\ reparsed = NotRun
  /\ derived = NotDerived
  /\ ScannerIdle
  /\ machine = parseFrom(input)

StepParse ==
  /\ pc = "running"
  /\ ~Halted(machine)
  /\ machine' = Step(machine)
  /\ UNCHANGED <<parseVars, scanVars>>

ReturnParse ==
  /\ pc = "running"
  /\ Halted(machine)
  /\ result' = Outcome(machine)
  /\ pc' = "returned"
  /\ UNCHANGED <<input, rendered, reparsed, derived, scanVars, machine>>

NextSteps == StepParse \/ ReturnParse

SpecSteps == InitSteps /\ [][NextSteps]_vars /\ WF_vars(NextSteps)

(***************************************************************************)
(* The properties.                                                         *)
(***************************************************************************)
\* Parse returned a Value and no error.
Succeeded(r) == ~r.panicked /\ r.err = NoError /\ r.val # NilValue

\* C1: round trip.  Whenever Parse succeeds on a text with a non-nil Value v,
\* Parse of v.String() succeeds too and returns a Value equal to v: same Type,
\* Annotations, payload, and children in the same order.
RoundTrip ==
  pc = "reparsed" => Succeeded(reparsed) /\ reparsed.val = result.val

\* C1: the Float 1.0 is rendered as 1 and comes back as an Int.
RoundTripFloatBecomesInt ==
  /\ pc = "reparsed"
  /\ input = <<"1", ".", "0">>
  /\ result.val.Type = FloatType
  /\ rendered = <<"1">>
  /\ Succeeded(reparsed)
  /\ reparsed.val.Type = IntType

\* name:: for each annotation in order.
AnnotationPrefix(annos) == Concat([i \in 1..Len(annos) |-> annos[i] \o <<":", ":">>])

Unannotated(v) == [v EXCEPT !.Annotations = <<>>]

\* C2: annotations are rendered for every value.  For a Value v of any Type
\* with annotations, v.String() is name:: for each annotation in order and then
\* the rendering of the value without its annotations.
AnnotationsRendered ==
  pc = "rendered" /\ result.val.Annotations # <<>> =>
    rendered = AnnotationPrefix(result.val.Annotations) \o String(Unannotated(result.val))

\* C2: an annotated Int is rendered without its annotation.
AnnotatedIntRenderedBare ==
  /\ pc = "rendered"
  /\ input = <<"a", ":", ":", "1">>
  /\ result.val.Type = IntType
  /\ result.val.Annotations = <<<<"a">>>>
  /\ rendered = <<"1">>

\* Two outcomes of Parse are the same: the same Value, and an error in both or
\* in neither.
SameOutcome(a, b) ==
  /\ a.val = b.val
  /\ a.panicked = b.panicked
  /\ (a.err = NoError) = (b.err = NoError)

\* C3: comment transparency.  For every text and every token boundary of it,
\* with or without whitespace around, the text with a line comment and its
\* newline inserted there has the same Parse outcome as the text with only the
\* newline inserted there.
CommentTransparent ==
  pc = "derived" /\ derived.kind = "comment" =>
    SameOutcome(derived.withComment, derived.withNewline)

\* C3: a comment with whitespace before it and after its newline makes Parse
\* fail, where the newline alone gives the Int 1.
CommentAfterWhitespaceFails ==
  /\ pc = "derived"
  /\ derived.kind = "comment"
  /\ input = <<SP, SP, "1">>
  /\ derived.at = 1
  /\ derived.withNewline.val.Type = IntType
  /\ derived.withComment.val = NilValue
  /\ derived.withComment.err.msg = "token not handled"
  /\ derived.withComment.err.tok = WHITESPACE

\* C4: unterminated container.  Whenever the input ends inside a struct, list
\* or sexp that was opened, at whatever point, Parse returns the "Unexpected
\* EOF" error and a nil Value.
UnterminatedContainer ==
  pc = "derived" /\ derived.kind = "truncate" =>
    /\ ~derived.result.panicked
    /\ derived.result.val = NilValue
    /\ derived.result.err.msg = "Unexpected EOF"

\* C4: the input ending after a field's colon makes Parse panic on a nil *Value.
EndAfterColonPanics ==
  /\ pc = "derived"
  /\ derived.kind = "truncate"
  /\ derived.text = <<"{", "a", ":">>
  /\ derived.result.panicked

\* C4: the input ending after a field name gives another error.
EndAfterFieldNameBadSyntax ==
  /\ pc = "derived"
  /\ derived.kind = "truncate"
  /\ derived.text = <<"{", "a">>
  /\ ~derived.result.panicked
  /\ derived.result.err.msg = "Bad struct syntax"

\* The first token the Scanner gave the Parser for the input.
FirstScanned == result.p.scanned[1]

\* What the specification says of a quoted literal: the walk from the i-th
\* character of the text, behind the opening delimiter, with acc the content
\* so far.  It ends "closed" at the first unescaped delimiter, "illegal" at the
\* first backslash followed by a character that is no escape, or "open" at the
\* end of the text; lit is the content (or the illegal sequence) and end the
\* number of characters of the text taken.
RECURSIVE AfterContinuation(_, _)
AfterContinuation(text, i) ==
  IF i <= Len(text) /\ isWhitespace(text[i]) THEN AfterContinuation(text, i + 1) ELSE i

RECURSIVE QuotedLiteral(_, _, _, _)
QuotedLiteral(text, i, delim, acc) ==
  IF i > Len(text) THEN [kind |-> "open", lit |-> acc, end |-> Len(text)]
  ELSE IF text[i] = delim THEN [kind |-> "closed", lit |-> acc, end |-> i]
  ELSE IF text[i] # BSL THEN QuotedLiteral(text, i + 1, delim, Append(acc, text[i]))
  ELSE IF i + 1 > Len(text) THEN [kind |-> "open", lit |-> acc, end |-> Len(text)]
  ELSE CASE text[i + 1] = DQ -> QuotedLiteral(text, i + 2, delim, Append(acc, DQ))
         [] text[i + 1] = "t" -> QuotedLiteral(text, i + 2, delim, Append(acc, TAB))
         [] text[i + 1] = "n" -> QuotedLiteral(text, i + 2, delim, Append(acc, NL))
         [] text[i + 1] = "r" -> QuotedLiteral(text, i + 2, delim, Append(acc, CR))
         [] text[i + 1] = NL -> QuotedLiteral(text, AfterContinuation(text, i + 2), delim, acc)
         [] OTHER -> [kind |-> "illegal", lit |-> <<BSL, text[i + 1]>>, end |-> i + 1]

StartsQuoted(text) == text # <<>> /\ text[1] \in {DQ, SQ}

Quoted(text) == QuotedLiteral(text, 2, text[1], <<>>)

\* C5: illegal escape.  For every quoted literal holding, at any position, a
\* backslash followed by a character that is no escape, Scan returns ILLEGAL
\* with that backslash and character as its literal, and Parse returns an error
\* and no Value.
IllegalEscape ==
  pc # "start" /\ StartsQuoted(input) /\ Quoted(input).kind = "illegal" =>
    /\ FirstScanned.tok = ILLEGAL
    /\ FirstScanned.lit = Quoted(input).lit
    /\ ~result.panicked
    /\ result.err # NoError
    /\ result.val = NilValue

\* C5: the illegal escape directly behind the opening delimiter is taken as
\* content, and Parse returns a String.
IllegalEscapeFirstAccepted ==
  /\ pc = "parsed"
  /\ input = <<DQ, BSL, "q", DQ>>
  /\ FirstScanned.tok = STRING_TOKEN
  /\ FirstScanned.lit = <<BSL, "q">>
  /\ Succeeded(result)
  /\ result.val.Type = StringType

\* C6: quoted-literal content.  For every quoted literal that is closed, the
\* token ends at the first unescaped occurrence of the opening delimiter, its
\* literal is the content between the delimiters with every escape replaced,
\* and scanning resumes right behind the closing delimiter.
QuotedLiteralContent ==
  pc # "start" /\ StartsQuoted(input) /\ Quoted(input).kind = "closed" =>
    /\ FirstScanned.tok = (IF input[1] = DQ THEN STRING_TOKEN ELSE SYMBOL)
    /\ FirstScanned.lit = Quoted(input).lit
    /\ FirstScanned.pos = Quoted(input).end

\* C6: the closing delimiter of the empty literal is taken as its content.
EmptyLiteralTakesDelimiter ==
  /\ pc = "parsed"
  /\ input = <<DQ, DQ>>
  /\ FirstScanned.tok = STRING_TOKEN
  /\ FirstScanned.lit = <<DQ>>

\* The first token of the input that is no whitespace.
FirstToken ==
  IF FirstScanned.tok = WHITESPACE /\ Len(result.p.scanned) > 1
  THEN result.p.scanned[2] ELSE FirstScanned

\* The digits of a NUMBER literal, behind its prefix, and what they are worth.
DigitsOf(lit) == IF numberBase(lit) = 10 THEN lit ELSE SubSeq(lit, 3, Len(lit))

RECURSIVE WorthOf(_, _)
WorthOf(digits, base) ==
  IF digits = <<>> THEN 0
  ELSE WorthOf(SubSeq(digits, 1, Len(digits) - 1), base) * base
       + DigitValue(digits[Len(digits)])

\* Every Int of a Value, its children included, is in 0..2^(w-1)-1.
RECURSIVE IntsInRange(_)
IntsInRange(v) ==
  /\ v.Type = IntType => v.Int \in 0..(Pow(2, IntBits - 1) - 1)
  /\ \A i \in DOMAIN v.Sequence : IntsInRange(v.Sequence[i])
  /\ \A i \in DOMAIN v.Struct : IntsInRange(v.Struct[i].Value)

IsIntegerLiteral(t) == t.tok = NUMBER /\ \A i \in DOMAIN t.lit : t.lit[i] # "."

\* C7: integer conversion and bound.  For every NUMBER literal without a dot,
\* Parse yields the Int worth the literal's digits in base 16 (0x), 2 (0b) or
\* 10 when that is at most 2^(w-1)-1, and a conversion error and no Value when
\* it is more or when no digit follows the prefix; every Int of a parsed Value
\* is in 0..2^(w-1)-1.
IntegerConversion ==
  pc # "start" =>
    /\ IsIntegerLiteral(FirstToken) =>
         IF /\ DigitsOf(FirstToken.lit) # <<>>
            /\ WorthOf(DigitsOf(FirstToken.lit), numberBase(FirstToken.lit))
                 <= Pow(2, IntBits - 1) - 1
         THEN /\ Succeeded(result)
              /\ result.val = [Value(IntType) EXCEPT
                                 !.Int = WorthOf(DigitsOf(FirstToken.lit),
                                                 numberBase(FirstToken.lit))]
         ELSE /\ ~result.panicked
              /\ result.val = NilValue
              /\ result.err.msg = "Cannot parse base integer"
              /\ result.err.base = numberBase(FirstToken.lit)
    /\ Succeeded(result) => IntsInRange(result.val)

\* C7: a hexadecimal literal worth exactly 2^(w-1)-1 parsed to that Int.
LargestHexParsed ==
  /\ pc = "parsed"
  /\ IsIntegerLiteral(FirstToken)
  /\ numberBase(FirstToken.lit) = 16
  /\ Succeeded(result)
  /\ result.val.Type = IntType
  /\ result.val.Int = Pow(2, IntBits - 1) - 1

\* C9: annotation attach.  For every symbol name a, bare or single-quoted, and
\* every text V that parses to a non-nil Value v without annotations, a::V
\* parses to v with Annotations exactly [a], Type and payload unchanged.
AnnotationAttached ==
  pc = "derived" /\ derived.kind = "annotate" /\ Succeeded(result)
    /\ result.val.Annotations = <<>> =>
      /\ ~derived.result.panicked
      /\ derived.result.err = NoError
      /\ derived.result.val = [result.val EXCEPT !.Annotations = <<derived.name>>]

\* C9: the empty quoted name swallows the double colon and the value.
EmptyQuotedNameNotAttached ==
  /\ pc = "derived"
  /\ derived.kind = "annotate"
  /\ derived.text = <<SQ, SQ>>
  /\ input = <<"1">>
  /\ derived.result.val.Type = SymbolType
  /\ derived.result.val.Text = <<SQ, ":", ":", "1">>
  /\ derived.result.val.Annotations = <<>>

\* C10: all or nothing.  Every parse function that returns an error returns a
\* nil Value with it, and the first error raised anywhere is the error Parse
\* returns: no later step replaces or swallows it.
AllOrNothing ==
  pc # "start" =>
    /\ \A i \in DOMAIN result.p.returns :
         result.p.returns[i].err # NoError => result.p.returns[i].nilValue
    /\ result.err # NoError => result.val = NilValue /\ result.p.raised # <<>>
    /\ result.p.raised # <<>> => ~result.panicked /\ result.err = result.p.raised[1]

\* C10: an error raised two containers deep came back through every caller.
NestedErrorReturned ==
  /\ pc = "parsed"
  /\ result.err # NoError
  /\ result.val = NilValue
  /\ result.err = result.p.raised[1]
  /\ Cardinality({i \in DOMAIN result.p.returns :
                    result.p.returns[i].fn \in {"parseSequence", "parseStruct"}
                    /\ result.p.returns[i].err # NoError}) >= 2

\* C8: lexer pushback.  For every token kind, ILLEGAL and EOF included, and
\* every literal, the Scan after Unscan(tok, lit) returns exactly (tok, lit) and
\* consumes no input, where a second Unscan before the Scan has replaced the
\* first; the Scan after that returns the next token of the input.
LexerPushback ==
  last.op = "Scan" =>
    IF last.pushed # NoPushback
    THEN /\ last.tok = last.pushed.tok
         /\ last.lit = last.pushed.lit
         /\ scanner.pos = last.from
    ELSE /\ last.tok = last.input.tok
         /\ last.lit = last.input.lit
         /\ scanner.pos = last.from + last.input.pos

\* C8: after Unscan(ILLEGAL, "?") the Scan returned a token of the input
\* instead and consumed it.
UnscanIllegalLost ==
  /\ last.op = "Scan"
  /\ last.pushed = [tok |-> ILLEGAL, lit |-> <<"?">>]
  /\ last.tok = SYMBOL
  /\ last.lit = <<"a">>
  /\ scanner.pos = last.from + 1

\* The struct texts of the documents whose values are scalars: name:value
\* pairs separated by a comma and a space, between braces.
FlatStructTexts ==
  UNION {{StructText(ns, is) : ns \in [1..k -> FieldNames], is \in [1..k -> ScalarTexts]} :
           k \in 0..MaxItems}

\* The first index from i on where the text holds the character, or one past
\* its end.
RECURSIVE IndexFrom(_, _, _)
IndexFrom(text, i, ch) ==
  IF i > Len(text) \/ text[i] = ch THEN i ELSE IndexFrom(text, i + 1, ch)

\* One pair as written: the name before the colon, the value's text behind it.
PairOf(pair) ==
  [name |-> SubSeq(pair, 1, IndexFrom(pair, 1, ":") - 1),
   value |-> SubSeq(pair, IndexFrom(pair, 1, ":") + 1, Len(pair))]

\* The pairs written in the body of such a struct text, in the order written.
RECURSIVE PairsOf(_)
PairsOf(body) ==
  IF body = <<>> THEN <<>>
  ELSE <<PairOf(SubSeq(body, 1, IndexFrom(body, 1, ",") - 1))>>
       \o PairsOf(SubSeq(body, IndexFrom(body, 1, ",") + 2, Len(body)))

WrittenPairs(text) == PairsOf(SubSeq(text, 2, Len(text) - 1))

\* The fields in the order given, as String() is to write them.
RECURSIVE FieldsInOrder(_)
FieldsInOrder(fields) ==
  IF fields = <<>> THEN <<>>
  ELSE fields[1].Name \o <<":", SP>> \o String(fields[1].Value)
       \o (IF Len(fields) = 1 THEN <<>> ELSE <<",", SP>>)
       \o FieldsInOrder(Tail(fields))

\* C11: struct field order.  A struct text that parses gives one Field per
\* name:value pair, in the order the pairs are written, duplicate names kept;
\* and String() writes the fields in that order.
StructFieldOrder ==
  pc # "start" /\ input \in FlatStructTexts =>
    /\ Succeeded(result)
    /\ result.val.Type = StructType
    /\ Len(result.val.Struct) = Len(WrittenPairs(input))
    /\ \A i \in DOMAIN result.val.Struct :
         /\ result.val.Struct[i].Name = WrittenPairs(input)[i].name
         /\ result.val.Struct[i].Value = Parse(WrittenPairs(input)[i].value).val
    /\ pc \in {"rendered", "reparsed"} =>
         rendered = <<"{">> \o FieldsInOrder(result.val.Struct) \o <<"}">>

\* C11: a struct with the same name twice, for two different values, parsed
\* and rendered.
DuplicateFieldsRendered ==
  /\ pc = "rendered"
  /\ input = <<"{", "a", ":", "1", ",", SP, "a", ":", "a", "}">>
  /\ Len(result.val.Struct) = 2
  /\ result.val.Struct[1].Value.Type = IntType
  /\ result.val.Struct[2].Value.Type = SymbolType
  /\ rendered = <<"{", "a", ":", SP, "1", ",", SP, "a", ":", SP, SQ, "a", SQ, "}">>

\* Parse returned an error and no Value.
Failed(r) == ~r.panicked /\ r.err # NoError /\ r.val = NilValue

\* C12: invalid field name.  Whenever the item at a field-name position of a
\* struct is no Symbol or String Value (a number, a Bool or Null, a container,
\* or no Value at all, as for a colon or an annotation followed by nothing),
\* and whenever a valid field name is not followed by a COLON token, Parse
\* returns an error and no Value.
InvalidFieldName ==
  pc # "start" =>
    \A i \in DOMAIN result.p.names :
      \/ result.p.names[i].type \in {SymbolType, StringType}
         /\ result.p.names[i].follows = COLON
      \/ Failed(result)

\* C12: a colon at the field-name position makes Parse panic.
ColonAsFieldNamePanics ==
  /\ pc = "parsed"
  /\ input = <<"{", ":">>
  /\ result.p.names = <<[type |-> "nil", follows |-> ""]>>
  /\ result.panicked

\* The tokens the grammar acted on: those the Scanner gave the Parser, without
\* the last one when it is still pushed back.
Consumed(p) ==
  IF p.buf.n = 1 THEN SubSeq(p.scanned, 1, Len(p.scanned) - 1) ELSE p.scanned

Openers == {OPEN_BRACE, OPEN_BRACKET, OPEN_PAREN}

Closers == {CLOSE_BRACE, CLOSE_BRACKET, CLOSE_PAREN}

CloserOf(tok) ==
  CASE tok = OPEN_BRACE -> CLOSE_BRACE
    [] tok = OPEN_BRACKET -> CLOSE_BRACKET
    [] tok = OPEN_PAREN -> CLOSE_PAREN

\* The delimiters among the tokens, in order.
RECURSIVE Delims(_)
Delims(toks) ==
  IF toks = <<>> THEN <<>>
  ELSE (IF toks[1].tok \in Openers \cup Closers THEN <<toks[1].tok>> ELSE <<>>)
       \o Delims(Tail(toks))

\* Some closer among the delimiters does not close the innermost open
\* container: open holds the closers awaited, innermost last.
RECURSIVE Mismatched(_, _)
Mismatched(delims, open) ==
  IF delims = <<>> THEN FALSE
  ELSE IF delims[1] \in Openers
       THEN Mismatched(Tail(delims), Append(open, CloserOf(delims[1])))
  ELSE IF open = <<>> \/ open[Len(open)] # delims[1] THEN TRUE
  ELSE Mismatched(Tail(delims), SubSeq(open, 1, Len(open) - 1))

\* The delimiters a Value was written with: those of its Type around those of
\* its children, in order.
RECURSIVE DelimsOfValue(_), DelimsOfValues(_), DelimsOfFields(_)
DelimsOfValue(v) ==
  CASE v.Type = ListType -> <<OPEN_BRACKET>> \o DelimsOfValues(v.Sequence) \o <<CLOSE_BRACKET>>
    [] v.Type = SexpType -> <<OPEN_PAREN>> \o DelimsOfValues(v.Sequence) \o <<CLOSE_PAREN>>
    [] v.Type = StructType -> <<OPEN_BRACE>> \o DelimsOfFields(v.Struct) \o <<CLOSE_BRACE>>
    [] OTHER -> <<>>

DelimsOfValues(vs) ==
  IF vs = <<>> THEN <<>> ELSE DelimsOfValue(vs[1]) \o DelimsOfValues(Tail(vs))

DelimsOfFields(fs) ==
  IF fs = <<>> THEN <<>> ELSE DelimsOfValue(fs[1].Value) \o DelimsOfFields(Tail(fs))

\* C13: matched delimiters.  Whenever Parse succeeds, the delimiters of the
\* consumed input are those of the Value returned: every container closed by
\* the closer of its opener, properly nested, "(" giving a Sexp, "[" a List and
\* "{" a Struct.  Whenever a closer is consumed that does not close the
\* innermost open container, Parse returns an error and no Value.
MatchedDelimiters ==
  pc # "start" =>
    /\ Succeeded(result) => Delims(Consumed(result.p)) = DelimsOfValue(result.val)
    /\ Mismatched(Delims(Consumed(result.p)), <<>>) => Failed(result)

\* C13: a parenthesis closing a bracket inside a list was rejected.
WrongCloserRejected ==
  /\ pc = "parsed"
  /\ input = <<"[", "[", ")">>
  /\ Delims(Consumed(result.p)) = <<OPEN_BRACKET, OPEN_BRACKET, CLOSE_PAREN>>
  /\ Failed(result)
  /\ result.err.msg = "Bad sequence"

\* The error parseToken builds when it is called with a WHITESPACE token.
WhitespaceNotHandled(err) ==
  err # NoError /\ err.msg = "token not handled" /\ err.tok = WHITESPACE

\* C14: whitespace never reaches the grammar.  Whatever tokens the Scanner
\* produces, two WHITESPACE tokens around a comment included, parseToken is
\* never called with a WHITESPACE token: no Parse fails with "token not
\* handled: WHITESPACE".
WhitespaceNeverReachesGrammar ==
  /\ ~WhitespaceNotHandled(result.err)
  /\ ~WhitespaceNotHandled(reparsed.err)
  /\ pc = "derived" /\ derived.kind = "comment" =>
       /\ ~WhitespaceNotHandled(derived.withComment.err)
       /\ ~WhitespaceNotHandled(derived.withNewline.err)

\* C14: with a comment between two whitespace runs, the second WHITESPACE token
\* reached parseToken.
SecondWhitespaceReachesGrammar ==
  /\ pc = "derived"
  /\ derived.kind = "comment"
  /\ input = <<"[", SP, SP>>
  /\ derived.at = 2
  /\ derived.body = <<"c">>
  /\ WhitespaceNotHandled(derived.withComment.err)
  /\ derived.withComment.err.lit = <<SP>>
  /\ ~WhitespaceNotHandled(derived.withNewline.err)

\* C15: once a Scan that read the input has returned (EOF, "") the next Scan,
\* with no Unscan in between, returns (EOF, "") too, and a Scan that reads the
\* input returns EOF only when no character of the input is left.
EofAbsorbing ==
  [][last'.op = "Scan" =>
       /\ (last'.pushed = NoPushback /\ last'.tok = EOF
             => scanner'.pos = Len(scanner'.src))
       /\ (last.op = "Scan" /\ last.pushed = NoPushback /\ last.tok = EOF /\ last.lit = <<>>
             => last'.tok = EOF /\ last'.lit = <<>>)]_vars

\* The input is U+0000 followed by a: the first Scan has returned (EOF, "")
\* with a still unread, the second one (SYMBOL, "a").
SymbolAfterEof ==
  /\ input = <<NUL, "a">>
  /\ last.op = "Scan" /\ last.pushed = NoPushback
  /\ last.from = 1
  /\ last.tok = SYMBOL /\ last.lit = <<"a">>

\* The texts a::b::V, V a scalar.
ChainedTexts == {<<"a", ":", ":", "b", ":", ":">> \o d : d \in ScalarTexts}

\* The bare symbols put before an annotated input as one more annotation.
BareAnnotation == derived.text = derived.name /\ derived.name # <<>>

\* The input parsed behind one more annotation, a bare symbol that differs
\* from the one the input's value carries.
Chained ==
  /\ pc = "derived" /\ derived.kind = "annotate" /\ BareAnnotation
  /\ Succeeded(result)
  /\ result.val.Annotations # <<>>
  /\ result.val.Annotations # <<derived.name>>

\* C16: chained annotations.  The Value of a::b::V, a different from b, holds
\* exactly one annotation, the last one in input order, the one nearest the
\* value (b).
ChainedAnnotationLastKept ==
  /\ pc # "start" /\ input \in ChainedTexts =>
       Succeeded(result) /\ result.val.Annotations = <<<<"b">>>>
  /\ Chained =>
       Succeeded(derived.result) /\ derived.result.val = result.val

\* C16, amended: the Value of a::b::V, a different from b, holds exactly one
\* annotation, the first one in input order, the one farthest from the value
\* (a); the later ones are overwritten.  Type and payload are those of V.
ChainedAnnotationFirstKept ==
  /\ pc # "start" /\ input \in ChainedTexts =>
       Succeeded(result) /\ result.val.Annotations = <<<<"a">>>>
  /\ Chained =>
       /\ Succeeded(derived.result)
       /\ derived.result.val = [result.val EXCEPT !.Annotations = <<derived.name>>]

\* true::a::[1] is a List that carries the annotation true alone.
OuterAnnotationKept ==
  /\ Chained
  /\ input = <<"a", ":", ":", "[", "1", "]">>
  /\ derived.name = <<"t", "r", "u", "e">>
  /\ derived.result.val.Type = ListType
  /\ derived.result.val.Annotations = <<<<"t", "r", "u", "e">>>>

RECURSIVE PayloadMatchesType(_)
\* Every node of the tree v holds a payload in the fields of its Type alone.
PayloadMatchesType(v) ==
  /\ v.Sequence # <<>> => v.Type \in {ListType, SexpType}
  /\ v.Struct # <<>> => v.Type = StructType
  /\ v.Text # <<>> => v.Type \in {StringType, SymbolType}
  /\ v.Int # 0 => v.Type \in {IntType, BoolType}
  /\ v.Type = BoolType => v.Int \in {0, 1}
  /\ v.Float # FloatZero => v.Type = FloatType
  /\ Len(v.Annotations) <= 1
  /\ \A i \in DOMAIN v.Sequence : PayloadMatchesType(v.Sequence[i])
  /\ \A i \in DOMAIN v.Struct : PayloadMatchesType(v.Struct[i].Value)

\* C17: payload matches Type.  In every Value tree a successful Parse returns,
\* of the input, of its rendering or of the input behind an annotation, every
\* node has a non-empty Sequence only if it is a List or Sexp, a non-empty
\* Struct only if a Struct, a non-empty Text only if a String or Symbol, a
\* non-zero Int only if an Int or Bool (0 or 1 for a Bool), a non-zero Float
\* only if a Float, and at most one annotation.
PayloadOfType ==
  /\ pc # "start" /\ Succeeded(result) => PayloadMatchesType(result.val)
  /\ pc = "reparsed" /\ Succeeded(reparsed) => PayloadMatchesType(reparsed.val)
  /\ pc = "derived" /\ derived.kind = "annotate" /\ Succeeded(derived.result) =>
       PayloadMatchesType(derived.result.val)

\* a::{a:[true]} has parsed: an annotated Struct of a List of a Bool.
NestedTreeParsed ==
  /\ pc = "parsed"
  /\ Succeeded(result)
  /\ result.val.Type = StructType
  /\ result.val.Annotations = <<<<"a">>>>
  /\ Len(result.val.Struct) = 1
  /\ result.val.Struct[1].Value.Type = ListType
  /\ Len(result.val.Struct[1].Value.Sequence) = 1
  /\ result.val.Struct[1].Value.Sequence[1].Type = BoolType
  /\ result.val.Struct[1].Value.Sequence[1].Int = 1

\* The token and literal of the entries of a log.
TokensOf(log) == [i \in DOMAIN log |-> [tok |-> log[i].tok, lit |-> log[i].lit]]

NotWhitespace(t) == t.tok # WHITESPACE

RECURSIVE ActedFrom(_, _)
\* The tokens scan returned from entry i of the log on, those that the next
\* call pushed back left out: they are returned again.
ActedFrom(taken, i) ==
  IF i > Len(taken) THEN <<>>
  ELSE IF taken[i].op = "scan" /\ (i = Len(taken) \/ taken[i + 1].op # "unscan")
       THEN <<taken[i]>> \o ActedFrom(taken, i + 1)
  ELSE ActedFrom(taken, i + 1)

\* The tokens the grammar has acted on.
Acted(p) == ActedFrom(p.taken, 1)

RECURSIVE ScanBefore(_, _)
\* The most recent scan before entry i of the log.
ScanBefore(taken, i) ==
  IF i <= 1 THEN Taken("none", ILLEGAL, <<>>, FALSE)
  ELSE IF taken[i - 1].op = "scan" THEN taken[i - 1]
  ELSE ScanBefore(taken, i - 1)

\* C18: the Parser's pushback loses nothing.  In every state of the Parser
\* buf.n is 0 or 1; the scan after an unscan returns the token and literal of
\* the most recent scan and does not read the Scanner; and the non-WHITESPACE
\* tokens the grammar has acted on are those the Scanner has produced (the one
\* pushed back and not yet taken again left out), each once and in order.
ParserPushback ==
  LET p == machine.p
  IN  /\ p.buf.n \in {0, 1}
      /\ \A i \in 2..Len(p.taken) :
           p.taken[i].op = "scan" /\ p.taken[i - 1].op = "unscan" =>
             /\ ~p.taken[i].read
             /\ ScanBefore(p.taken, i).op = "scan"
             /\ p.taken[i].tok = ScanBefore(p.taken, i).tok
             /\ p.taken[i].lit = ScanBefore(p.taken, i).lit
      /\ SelectSeq(TokensOf(Acted(p)), NotWhitespace)
           = SelectSeq(TokensOf(Consumed(p)), NotWhitespace)

\* a::[a] has been parsed: the token behind each symbol was peeked, the
\* bracket pushed back and taken again, the double colon acted on at once.
PeekedTokenTakenAgain ==
  /\ pc = "returned"
  /\ input = <<"a", ":", ":", "[", "a", "]">>
  /\ Succeeded(result)
  /\ \E i \in 2..Len(machine.p.taken) :
       /\ machine.p.taken[i - 1].op = "unscan"
       /\ machine.p.taken[i] = Taken("scan", CLOSE_BRACKET, machine.p.taken[i].lit, FALSE)
  /\ Len(SelectSeq(TokensOf(Acted(machine.p)), NotWhitespace)) = 5

\* C19: no missing value is ever used.  For every input Parse returns with a
\* value and error and never aborts on a nil item of a struct, and when the
\* text after a field's colon yields no value Parse returns an error and no
\* Value.
NoMissingValueUsed ==
  pc # "start" =>
    /\ ~result.panicked
    /\ input \in MissingValueTexts => Failed(result)

\* {a:,} : the comma yields no value and no error, and the Field is built
\* from the nil result.
CommaAfterColonPanics ==
  /\ pc = "parsed"
  /\ input = <<"{", "a", ":", ",", "}">>
  /\ result.panicked
  /\ result.p.names = <<[type |-> SymbolType, follows |-> COLON]>>
  /\ result.p.returns[Len(result.p.returns)] =
       [fn |-> "parse", nilValue |-> TRUE, err |-> NoError]

\* The control states at the head of the loops of parseSequence and
\* parseStruct, entered with the token of the pass scanned.
LoopHeads == {"parseSequenceLoop", "parseStructLoop"}

\* A step that calls parse, or that starts a pass of a loop, takes a token
\* for the grammar to act on.
TakesToken ==
  machine.ctl.op = "parse" \/ machine'.ctl.op \in LoopHeads =>
    Len(Acted(machine'.p)) > Len(Acted(machine.p))

\* Every call of Scanner.Scan has consumed at least one character, but the
\* ones that returned EOF at the end of the input.
ScanConsumes ==
  LET scanned == machine.p.scanned
  IN  \A i \in DOMAIN scanned :
        \/ scanned[i].pos > (IF i = 1 THEN 0 ELSE scanned[i - 1].pos)
        \/ scanned[i].tok = EOF /\ scanned[i].pos = Len(machine.p.scanner.src)

====
